---------------------------- MODULE Spec2Model ----------------------------
(***************************************************************************)
(* The streaming JSON writer of librfc (src/rfc/rfc4627/json_writer.cc,    *)
(* json_writer.h) as a state machine.                                      *)
(*                                                                         *)
(* State of one writer: the depth counter, the per-depth state array and   *)
(* the bytes its FILE* stream has received.  Every public member function  *)
(* is one action.  Bytes are integers 0..255; a C string is a sequence of  *)
(* non-zero bytes (the terminating NUL is not part of the sequence).       *)
(*                                                                         *)
(* The module also holds the SHA-1 digest value type (src/rfc/rfc3174/     *)
(* sha1.h) and the C string wrapper (src/rfc/util/str.h), each with its    *)
(* own variables and specification.                                        *)
(***************************************************************************)
EXTENDS Integers, Sequences, FiniteSets

VARIABLES
  _depth,   \* json_writer::_depth
  _state,   \* json_writer::_state[], indexed by depth
  _stream,  \* the bytes written to json_writer::_stream so far
  result,   \* how the last call ended: "ok", an exception, or the process died
  hist,     \* the calls made since Init, oldest first (history, not program state)
  ndebug,   \* whether the build defines NDEBUG (assert compiled out)
  sha_data, \* sha1::_data of every digest object: its 20 bytes
  sha_call, \* the last call made on a digest, with what it returned
  buf,      \* the character buffer the string views refer to
  str_data, \* str::_data of every view: an offset into buf, or NullData
  str_call  \* the last call made on a view, with how it ended

writerVars == <<_depth, _state, _stream, result, hist, ndebug>>
shaVars == <<sha_data, sha_call>>
strVars == <<buf, str_data, str_call>>
vars == <<writerVars, shaVars, strVars>>

---------------------------------------------------------------------------
(* Bounds of the model *)

\* Number of calls made on one writer in one behaviour.
MaxCalls == 4

\* Longest string drawn from SampleBytes for the escaping check.
MaxStrLen == 2
MaxViewLen == 3   \* bytes before the last NUL of the views' buffer

---------------------------------------------------------------------------
(* Types *)

\* Largest value of the unsigned depth counter: the counter wraps to it when
\* decremented at zero.  (The declaration of _depth is not in the sources; 16
\* bits is the least width an unsigned int can have.)
UIntMax == 65535

\* The depth of a writer just constructed.  (The initialiser of _depth is not
\* in the sources either; the depth is zero at construction.)
InitialDepth == 0

\* The deepest nesting the state array has a slot for: _state[] has the slots
\* 0..MaxSupportedDepth.  (The declaration of _state[] is not in the sources;
\* 64 is the least maximum depth a writer is to support.)
MaxSupportedDepth == 64

\* The values of enum class state that the writer uses.
States == {"none", "array_begin", "array_element", "object_begin"}

\* The results of a call that end the process: a failed assert, a faulting read.
Dead == {"abort", "segv"}

Last(s) == s[Len(s)]

---------------------------------------------------------------------------
(* The stream: fputc, fputs, fprintf *)

\* json_writer::write(const int c): fputc(c, _stream).
write_c(out, c) == Append(out, c)

\* json_writer::write(const char* s): fputs(s, _stream).
write_s(out, s) == out \o s

\* The decimal digits of a natural number, most significant first.
RECURSIVE DecDigits(_)
DecDigits(n) ==
  IF n < 10 THEN <<48 + n>> ELSE Append(DecDigits(n \div 10), 48 + (n % 10))

\* fprintf(_stream, "%lld", value)
fprintf_lld(out, value) ==
  IF value < 0 THEN out \o <<45>> \o DecDigits(0 - value)
               ELSE out \o DecDigits(value)

\* fprintf(_stream, "%llu", value)
fprintf_llu(out, value) == out \o DecDigits(value)

\* A double: its class, its sign bit and, when finite, its magnitude.  The
\* finite doubles of the model are the integer-valued ones below 10^20, which
\* "%.20g" prints exactly, as their decimal digits.
Double(cls, neg, mag) == [cls |-> cls, neg |-> neg, mag |-> mag]

\* fprintf(_stream, "%.20g", value)
fprintf_g(out, value) ==
  out \o (IF value.neg THEN <<45>> ELSE <<>>)
      \o (CASE value.cls = "nan" -> <<110, 97, 110>>
            [] value.cls = "inf" -> <<105, 110, 102>>
            [] OTHER -> DecDigits(value.mag))

\* One uppercase hexadecimal digit.
HexDigit(n) == IF n < 10 THEN 48 + n ELSE 55 + n

\* The hexadecimal digits of a natural number, most significant first.
RECURSIVE HexDigits(_)
HexDigits(n) ==
  IF n < 16 THEN <<HexDigit(n)>>
            ELSE Append(HexDigits(n \div 16), HexDigit(n % 16))

\* fprintf(_stream, "%04X", value): at least four digits, padded with '0'.
fprintf_04X(out, value) ==
  LET d == HexDigits(value)
      pad == IF Len(d) >= 4 THEN <<>> ELSE [i \in 1..(4 - Len(d)) |-> 48]
  IN  out \o pad \o d

---------------------------------------------------------------------------
(* json_writer's private helpers *)

\* write_char without the case for the solidus.
write_char_no_solidus(out, value) ==
  CASE value = 34 -> write_s(out, <<92, 34>>)
    [] value = 92 -> write_s(out, <<92, 92>>)
    [] value = 8  -> write_s(out, <<92, 98>>)
    [] value = 12 -> write_s(out, <<92, 102>>)
    [] value = 10 -> write_s(out, <<92, 110>>)
    [] value = 13 -> write_s(out, <<92, 114>>)
    [] value = 9  -> write_s(out, <<92, 116>>)
    [] OTHER ->
         IF value <= 31
           THEN fprintf_04X(write_s(out, <<92, 117>>), value)
           ELSE write_c(out, value)

\* json_writer::write_char: one byte of a string, escaped.
write_char(out, value) ==
  CASE value = 34 -> write_s(out, <<92, 34>>)
    [] value = 92 -> write_s(out, <<92, 92>>)
    [] value = 47 -> write_s(out, <<92, 47>>)
    [] value = 8  -> write_s(out, <<92, 98>>)
    [] value = 12 -> write_s(out, <<92, 102>>)
    [] value = 10 -> write_s(out, <<92, 110>>)
    [] value = 13 -> write_s(out, <<92, 114>>)
    [] value = 9  -> write_s(out, <<92, 116>>)
    [] OTHER ->
         IF value <= 31
           THEN fprintf_04X(write_s(out, <<92, 117>>), value)
           ELSE write_c(out, value)

\* The loop of write_string: write_char on every byte up to the NUL.
RECURSIVE write_chars(_, _)
write_chars(out, s) ==
  IF s = <<>> THEN out ELSE write_chars(write_char(out, Head(s)), Tail(s))

\* increment_depth that leaves the counter alone.
increment_depth_skipped(d) == d

\* json_writer::increment_depth: _depth++ on an unsigned counter.
increment_depth(d) == (d + 1) % (UIntMax + 1)

\* json_writer::decrement_depth past its assert: _depth-- on an unsigned counter.
decrement_depth(d) == (d + UIntMax) % (UIntMax + 1)

\* What a read of _state[_depth] can yield: the stored value or, when the
\* index is outside the array, any value at all.
ReadState(st, d) == IF d \in DOMAIN st THEN {st[d]} ELSE States

\* json_writer::insert_separator, with s the value read from _state[_depth].
insert_separator(out, s) ==
  IF s = "array_element" THEN write_c(out, 44) ELSE out

\* json_writer::insert_whitespace: nothing.
insert_whitespace(out) == out

\* json_writer::set_state: stores the state of the current level.
set_state(st, d, s) == [st EXCEPT ![d] = s]

---------------------------------------------------------------------------
(* Arguments of the calls *)

\* A const char*: the null pointer, or a pointer to NUL-terminated bytes.
NullPtr == [null |-> TRUE, bytes |-> <<>>]
CStr(bytes) == [null |-> FALSE, bytes |-> bytes]

NaN == Double("nan", FALSE, 0)
PosInf == Double("inf", FALSE, 0)
NegInf == Double("inf", TRUE, 0)

BoolInputs == {TRUE, FALSE}
SignedInputs == {0 - 7}
UnsignedInputs == {36}
DoubleInputs == {NaN, PosInf, NegInf, Double("finite", FALSE, 2)}
StrInputs == {NullPtr, CStr(<<97>>)}

\* Bytes the longer strings of the escaping check are made of: a control byte
\* with and without a short escape, the three escaped printable bytes, a
\* letter and a byte above 0x7F.
SampleBytes == {1, 10, 31, 34, 47, 92, 97, 195}

\* Strings of the escaping check: every single non-NUL byte, and every string
\* over SampleBytes up to MaxStrLen.
EscapeInputs ==
  {CStr(<<b>>) : b \in 1..255}
    \cup {CStr(s) : s \in UNION {[1..n -> SampleBytes] : n \in 0..MaxStrLen}}

Call(name, arg) == [name |-> name, arg |-> arg]

---------------------------------------------------------------------------
(* Construction *)

\* json_writer(FILE* stream): depth zero, every level state::none, nothing
\* written.
WriterInit ==
  /\ _depth = InitialDepth
  /\ _state = [d \in 0..MaxSupportedDepth |-> "none"]
  /\ _stream = <<>>
  /\ result = "ok"
  /\ hist = <<>>
  /\ ndebug \in BOOLEAN

---------------------------------------------------------------------------
(* rfc3174::sha1 *)

\* sha1::size: a digest has 20 bytes.
sha1_size == 20

\* The digest objects of the model.
Digests == {"a", "b", "c"}

\* std::uint8_t _data[size] = {}: all zeroes.
ZeroData == [i \in 0..(sha1_size - 1) |-> 0]

\* Byte values and positions the model writes into digests and buffers: the
\* first and the last byte; zero, a small value and one above 0x7F.
ByteInputs == {0, 1, 255}
PosInputs == {0, sha1_size - 1}

\* The 20-byte buffers handed to sha1(const std::uint8_t*).
BufferInputs ==
  {[i \in 0..(sha1_size - 1) |->
      IF i = 0 THEN u ELSE IF i = sha1_size - 1 THEN v ELSE 0] :
    u \in ByteInputs, v \in ByteInputs}

ShaCall(name, x, y, src, ret) ==
  [name |-> name, x |-> x, y |-> y, src |-> src, ret |-> ret]

\* Three digests constructed by default.
ShaInit ==
  /\ sha_data = [x \in Digests |-> ZeroData]
  /\ sha_call = ShaCall("sha1", "a", "a", ZeroData, 0)

\* The statement *_data = *other: the first byte of the array is assigned,
\* the others are left as they are.
assign_first(data, other) == [data EXCEPT ![0] = other[0]]

\* std::memcmp(u, v, n) from byte i on: the difference of the first pair of
\* bytes that differ, compared as unsigned char (only its sign is specified).
RECURSIVE memcmp_from(_, _, _, _)
memcmp_from(u, v, i, n) ==
  IF i = n THEN 0
  ELSE IF u[i] # v[i] THEN u[i] - v[i]
  ELSE memcmp_from(u, v, i + 1, n)

\* A byte read as a signed char.
SignedChar(b) == IF b > 127 THEN b - 256 ELSE b

\* A comparison of the bytes as signed char, which memcmp does not make.
memcmp_signed(u, v, n) ==
  memcmp_from([i \in DOMAIN u |-> SignedChar(u[i])],
              [i \in DOMAIN v |-> SignedChar(v[i])], 0, n)

memcmp(u, v, n) == memcmp_from(u, v, 0, n)

\* sha1::compare
compare(data, other) == memcmp(data, other, sha1_size)

\* sha1::operator==, !=, <, <=, >, >=
op_eq(data, other) == compare(data, other) = 0
op_ne(data, other) == compare(data, other) # 0
op_lt(data, other) == compare(data, other) < 0
op_le(data, other) == compare(data, other) <= 0
op_gt(data, other) == compare(data, other) > 0
op_ge(data, other) == compare(data, other) >= 0

\* sha1(): a new digest in the place of x.
sha1_default(x) ==
  /\ UNCHANGED <<writerVars, strVars>>
  /\ sha_data' = [sha_data EXCEPT ![x] = ZeroData]
  /\ sha_call' = ShaCall("sha1", x, x, ZeroData, 0)

\* sha1(const std::uint8_t* data): a new digest in the place of x.
sha1_from_data(x, src) ==
  /\ UNCHANGED <<writerVars, strVars>>
  /\ sha_data' = [sha_data EXCEPT ![x] = assign_first(ZeroData, src)]
  /\ sha_call' = ShaCall("sha1_data", x, x, src, 0)

\* sha1(const sha1& other): a new digest in the place of x, from y.
sha1_copy(x, y) ==
  /\ UNCHANGED <<writerVars, strVars>>
  /\ sha_data' = [sha_data EXCEPT ![x] = assign_first(ZeroData, sha_data[y])]
  /\ sha_call' = ShaCall("sha1_copy", x, y, ZeroData, 0)

\* sha1(sha1&& other): a new (zeroed) digest in the place of x, swapped with y.
sha1_move(x, y) ==
  /\ UNCHANGED <<writerVars, strVars>>
  /\ sha_data' = [sha_data EXCEPT ![x] = sha_data[y], ![y] = ZeroData]
  /\ sha_call' = ShaCall("sha1_move", x, y, ZeroData, 0)

\* operator=(sha1 other), called as x = y: the parameter is copy-constructed
\* from y and swapped with x.
sha1_assign(x, y) ==
  /\ UNCHANGED <<writerVars, strVars>>
  /\ sha_data' = [sha_data EXCEPT ![x] = assign_first(ZeroData, sha_data[y])]
  /\ sha_call' = ShaCall("assign", x, y, ZeroData, 0)

\* x.swap(y)
sha1_swap(x, y) ==
  /\ UNCHANGED <<writerVars, strVars>>
  /\ sha_data' = [sha_data EXCEPT ![x] = sha_data[y], ![y] = sha_data[x]]
  /\ sha_call' = ShaCall("swap", x, y, ZeroData, 0)

\* x.clear()
sha1_clear(x) ==
  /\ UNCHANGED <<writerVars, strVars>>
  /\ sha_data' = [sha_data EXCEPT ![x] = ZeroData]
  /\ sha_call' = ShaCall("clear", x, x, ZeroData, 0)

\* x[position] = value
sha1_store(x, position, value) ==
  /\ UNCHANGED <<writerVars, strVars>>
  /\ sha_data' = [sha_data EXCEPT ![x][position] = value]
  /\ sha_call' = ShaCall("store", x, x, ZeroData, 0)

\* x.compare(y)
sha1_compare(x, y) ==
  /\ UNCHANGED <<writerVars, strVars>>
  /\ sha_call' = ShaCall("compare", x, y, ZeroData, compare(sha_data[x], sha_data[y]))
  /\ UNCHANGED sha_data

NextSha ==
  \/ \E x \in Digests : sha1_default(x)
  \/ \E x \in Digests, src \in BufferInputs : sha1_from_data(x, src)
  \/ \E x \in Digests : \E y \in Digests \ {x} : sha1_copy(x, y)
  \/ \E x \in Digests : \E y \in Digests \ {x} : sha1_move(x, y)
  \/ \E x \in Digests, y \in Digests : sha1_assign(x, y)
  \/ \E x \in Digests, y \in Digests : sha1_swap(x, y)
  \/ \E x \in Digests : sha1_clear(x)
  \/ \E x \in Digests, i \in PosInputs, v \in ByteInputs : sha1_store(x, i, v)
  \/ \E x \in Digests, y \in Digests : sha1_compare(x, y)

---------------------------------------------------------------------------
(* rfc::str *)

\* char* _data = nullptr
NullData == 0 - 1

\* static_cast<std::size_t>(-1).  Sizes and positions are far below the
\* modulus of std::size_t, so the value is written as -1 and size() - 1 on an
\* empty string is this same value.
npos == 0 - 1

\* The views of the model.
Views == {"s", "t"}

\* The bytes of the buffers, and the bytes searched for (one never present).
CharInputs == {0, 97, 98}
FindInputs == CharInputs \cup {99}

\* The NUL-terminated buffers a view is constructed over.
CharBuffers ==
  {b \in [1..(MaxViewLen + 1) -> CharInputs] : b[MaxViewLen + 1] = 0}

\* Offsets that point into the buffer.
InBuffer(b, p) == p >= 0 /\ p < Len(b)

\* data[pos], for a pointer data inside the buffer.
byte_at(b, data, pos) == b[data + pos + 1]

\* std::strlen(data)
RECURSIVE strlen(_, _)
strlen(b, data) ==
  IF byte_at(b, data, 0) = 0 THEN 0 ELSE 1 + strlen(b, data + 1)

\* std::strrchr(data, c): the position in the buffer of the last occurrence.
RECURSIVE strrchr(_, _, _)
strrchr(b, data, c) ==
  LET rest == IF byte_at(b, data, 0) = 0 THEN NullData
              ELSE strrchr(b, data + 1, c)
  IN IF rest # NullData THEN rest
     ELSE IF byte_at(b, data, 0) = c THEN data
     ELSE NullData

\* std::strchr(data, c): the position in the buffer of the first occurrence
\* (the terminating NUL is part of the string), or a null pointer.
RECURSIVE strchr(_, _, _)
strchr(b, data, c) ==
  IF byte_at(b, data, 0) = c THEN data
  ELSE IF byte_at(b, data, 0) = 0 THEN NullData
  ELSE strchr(b, data + 1, c)

\* str::size
size(b, data) == IF data # NullData THEN strlen(b, data) ELSE 0

\* The test of str::at that lets the access through, with the bound included.
at_allows_size(pos, n) == pos <= n

\* The test of str::at that lets the access through: not pos >= size().
at_allows(pos, n) == ~(pos >= n)

\* The index str::pop_back would write if it wrote the terminator again.
pop_back_index_of_nul(n) == n

\* The index str::pop_back writes: size() - 1 (npos when the size is zero).
pop_back_index(n) == n - 1

\* str::find(char c, pos = 0) on a view with a buffer
find(b, data, c) ==
  LET found == strchr(b, data + 0, c)
  IN IF found # NullData THEN found - data ELSE npos

StrCall(name, v, w, arg, how, ret) ==
  [name |-> name, v |-> v, w |-> w, arg |-> arg, how |-> how, ret |-> ret]

\* Two views constructed by default, over no buffer.
StrIdle ==
  /\ buf = <<0>>
  /\ str_data = [v \in Views |-> NullData]
  /\ str_call = StrCall("str", "s", "s", 0, "ok", 0)

\* View s constructed over a buffer, view t by default.
InitView ==
  /\ WriterInit
  /\ ShaInit
  /\ buf \in CharBuffers
  /\ str_data = [v \in Views |-> IF v = "s" THEN 0 ELSE NullData]
  /\ str_call = StrCall("str", "s", "s", 0, "ok", 0)

\* str(char* data): a new view in the place of v, over the buffer.
str_construct(v) ==
  /\ str_data' = [str_data EXCEPT ![v] = 0]
  /\ str_call' = StrCall("str", v, v, 0, "ok", 0)
  /\ UNCHANGED <<buf, writerVars, shaVars>>

\* v.clear()
str_clear(v) ==
  /\ str_data' = [str_data EXCEPT ![v] = NullData]
  /\ str_call' = StrCall("clear", v, v, 0, "ok", 0)
  /\ UNCHANGED <<buf, writerVars, shaVars>>

\* v.size()
str_size(v) ==
  /\ str_call' = StrCall("size", v, v, 0, "ok", size(buf, str_data[v]))
  /\ UNCHANGED <<buf, str_data, writerVars, shaVars>>

\* v[pos]: no check; with a null pointer or past the buffer the read is
\* undefined and gives any byte or faults.
str_index(v, pos) ==
  /\ IF str_data[v] # NullData /\ InBuffer(buf, str_data[v] + pos)
       THEN str_call' = StrCall("index", v, v, pos, "ok", byte_at(buf, str_data[v], pos))
       ELSE \E any \in CharInputs : str_call' = StrCall("index", v, v, pos, "ub", any)
  /\ UNCHANGED <<buf, str_data, writerVars, shaVars>>

\* v.at(pos)
str_at(v, pos) ==
  /\ IF at_allows(pos, size(buf, str_data[v]))
       THEN IF str_data[v] # NullData /\ InBuffer(buf, str_data[v] + pos)
              THEN str_call' = StrCall("at", v, v, pos, "ok", byte_at(buf, str_data[v], pos))
              ELSE \E any \in CharInputs : str_call' = StrCall("at", v, v, pos, "ub", any)
       ELSE str_call' = StrCall("at", v, v, pos, "out_of_range", 0)
  /\ UNCHANGED <<buf, str_data, writerVars, shaVars>>

\* v.front(): _data[0]
str_front(v) ==
  /\ IF str_data[v] # NullData
       THEN str_call' = StrCall("front", v, v, 0, "ok", byte_at(buf, str_data[v], 0))
       ELSE \E any \in CharInputs : str_call' = StrCall("front", v, v, 0, "ub", any)
  /\ UNCHANGED <<buf, str_data, writerVars, shaVars>>

\* v.pop_back().  On an empty string the index is size() - 1 of an unsigned
\* zero: the store is undefined, and lands on the byte before the view when
\* the buffer has one, or is lost or faults.
str_pop_back(v) ==
  LET n == size(buf, str_data[v])
      target == str_data[v] + pop_back_index(n)
  IN /\ IF str_data[v] # NullData /\ n >= 1
          THEN /\ buf' = [buf EXCEPT ![target + 1] = 0]
               /\ str_call' = StrCall("pop_back", v, v, pop_back_index(n), "ok", 0)
          ELSE /\ \/ buf' = buf
                  \/ /\ str_data[v] # NullData
                     /\ InBuffer(buf, target)
                     /\ buf' = [buf EXCEPT ![target + 1] = 0]
               /\ str_call' = StrCall("pop_back", v, v, pop_back_index(n), "ub", 0)
     /\ UNCHANGED <<str_data, writerVars, shaVars>>

\* v.find(c)
str_find(v, c) ==
  /\ IF str_data[v] # NullData
       THEN str_call' = StrCall("find", v, v, c, "ok", find(buf, str_data[v], c))
       ELSE \E any \in {npos, 0} : str_call' = StrCall("find", v, v, c, "ub", any)
  /\ UNCHANGED <<buf, str_data, writerVars, shaVars>>

\* w = v.substr(pos): the view str(_data + pos) in the place of w.  The
\* positions are those that keep the new pointer inside the buffer (a null
\* pointer stays null with position zero).
str_substr(v, w, pos) ==
  /\ IF str_data[v] # NullData
       THEN InBuffer(buf, str_data[v] + pos)
       ELSE pos = 0
  /\ str_data' = [str_data EXCEPT
                    ![w] = IF str_data[v] # NullData THEN str_data[v] + pos
                           ELSE NullData]
  /\ str_call' = StrCall("substr", v, w, pos, "ok", 0)
  /\ UNCHANGED <<buf, writerVars, shaVars>>

NextView ==
  \/ \E v \in Views : str_construct(v)
  \/ \E v \in Views : str_clear(v)
  \/ \E v \in Views : str_size(v)
  \/ \E v \in Views, pos \in 0..(MaxViewLen + 1) : str_index(v, pos)
  \/ \E v \in Views, pos \in 0..(MaxViewLen + 1) : str_at(v, pos)
  \/ \E v \in Views : str_front(v)
  \/ \E v \in Views : str_pop_back(v)
  \/ \E v \in Views, c \in FindInputs : str_find(v, c)
  \/ \E v \in Views, w \in Views, pos \in 0..MaxViewLen : str_substr(v, w, pos)

\* A writer just constructed; the digests and the views as constructed by
\* default.
Init == WriterInit /\ ShaInit /\ StrIdle

\* A call can be made: the process is alive (and the model's call budget is
\* not used up).
CanCall == result \notin Dead /\ Len(hist) < MaxCalls

\* The read of _state[_depth] faults: possible when the index is outside the
\* array.
Segv ==
  /\ _depth \notin DOMAIN _state
  /\ result' = "segv"
  /\ UNCHANGED <<_depth, _state, _stream>>

\* set_state when the incremented depth is outside the array: the store
\* goes past the end of _state[].  It either faults, before the opening byte
\* c is written, or lands in memory that is not the writer's state.  s is the
\* state insert_separator read.
StoreOutside(s, c) ==
  /\ _depth' \notin DOMAIN _state
  /\ _state' = _state
  /\ \/ /\ _stream' = write_c(insert_whitespace(insert_separator(_stream, s)), c)
        /\ result' = "ok"
     \/ /\ _stream' = insert_whitespace(insert_separator(_stream, s))
        /\ result' = "segv"

\* The failing assert of decrement_depth ends the process.
Abort ==
  /\ result' = "abort"
  /\ UNCHANGED <<_depth, _state, _stream>>

\* The test for infinities alone, without the one for NaN.
IsNonFinite_isinf_only(value) == value.cls = "inf"

\* std::isinf(value) or std::isnan(value)
IsNonFinite(value) == value.cls \in {"inf", "nan"}

---------------------------------------------------------------------------
(* The public member functions *)

begin_object ==
  /\ CanCall
  /\ hist' = Append(hist, Call("begin_object", <<>>))
  /\ \/ \E s \in ReadState(_state, _depth) :
          /\ _depth' = increment_depth(_depth)
          /\ \/ /\ _depth' \in DOMAIN _state
                /\ _state' = set_state(_state, _depth', "object_begin")
                /\ _stream' = write_c(insert_whitespace(insert_separator(_stream, s)), 123)
                /\ result' = "ok"
             \/ StoreOutside(s, 123)
     \/ Segv
  /\ UNCHANGED <<ndebug, shaVars, strVars>>

finish_object ==
  /\ CanCall
  /\ hist' = Append(hist, Call("finish_object", <<>>))
  /\ IF _depth >= 1 \/ ndebug
       THEN /\ _depth' = decrement_depth(_depth)
            /\ _stream' = write_c(insert_whitespace(_stream), 125)
            /\ result' = "ok"
            /\ UNCHANGED _state
       ELSE Abort
  /\ UNCHANGED <<ndebug, shaVars, strVars>>

begin_array ==
  /\ CanCall
  /\ hist' = Append(hist, Call("begin_array", <<>>))
  /\ \/ \E s \in ReadState(_state, _depth) :
          /\ _depth' = increment_depth(_depth)
          /\ \/ /\ _depth' \in DOMAIN _state
                /\ _state' = set_state(_state, _depth', "array_begin")
                /\ _stream' = write_c(insert_whitespace(insert_separator(_stream, s)), 91)
                /\ result' = "ok"
             \/ StoreOutside(s, 91)
     \/ Segv
  /\ UNCHANGED <<ndebug, shaVars, strVars>>

finish_array ==
  /\ CanCall
  /\ hist' = Append(hist, Call("finish_array", <<>>))
  /\ IF _depth >= 1 \/ ndebug
       THEN /\ _depth' = decrement_depth(_depth)
            /\ _stream' = write_c(insert_whitespace(_stream), 93)
            /\ result' = "ok"
            /\ UNCHANGED _state
       ELSE Abort
  /\ UNCHANGED <<ndebug, shaVars, strVars>>

\* The body of write_null, also reached from write_string(nullptr).
write_null_body ==
  \/ \E s \in ReadState(_state, _depth) :
       /\ _stream' = write_s(insert_whitespace(insert_separator(_stream, s)),
                             <<110, 117, 108, 108>>)
       /\ result' = "ok"
       /\ UNCHANGED <<_depth, _state>>
  \/ Segv

write_null ==
  /\ CanCall
  /\ hist' = Append(hist, Call("write_null", <<>>))
  /\ write_null_body
  /\ UNCHANGED <<ndebug, shaVars, strVars>>

write_boolean(value) ==
  /\ CanCall
  /\ hist' = Append(hist, Call("write_boolean", value))
  /\ \/ \E s \in ReadState(_state, _depth) :
          /\ _stream' = write_s(insert_whitespace(insert_separator(_stream, s)),
                                IF value THEN <<116, 114, 117, 101>>
                                         ELSE <<102, 97, 108, 115, 101>>)
          /\ result' = "ok"
          /\ UNCHANGED <<_depth, _state>>
     \/ Segv
  /\ UNCHANGED <<ndebug, shaVars, strVars>>

write_number_ll(value) ==
  /\ CanCall
  /\ hist' = Append(hist, Call("write_number_ll", value))
  /\ \/ \E s \in ReadState(_state, _depth) :
          /\ _stream' = fprintf_lld(insert_whitespace(insert_separator(_stream, s)), value)
          /\ result' = "ok"
          /\ UNCHANGED <<_depth, _state>>
     \/ Segv
  /\ UNCHANGED <<ndebug, shaVars, strVars>>

write_number_ull(value) ==
  /\ CanCall
  /\ hist' = Append(hist, Call("write_number_ull", value))
  /\ \/ \E s \in ReadState(_state, _depth) :
          /\ _stream' = fprintf_llu(insert_whitespace(insert_separator(_stream, s)), value)
          /\ result' = "ok"
          /\ UNCHANGED <<_depth, _state>>
     \/ Segv
  /\ UNCHANGED <<ndebug, shaVars, strVars>>

write_number_double(value) ==
  /\ CanCall
  /\ hist' = Append(hist, Call("write_number_double", value))
  /\ IF IsNonFinite(value)
       THEN /\ result' = "invalid_argument"
            /\ UNCHANGED <<_depth, _state, _stream>>
       ELSE \/ \E s \in ReadState(_state, _depth) :
                 /\ _stream' = fprintf_g(insert_whitespace(insert_separator(_stream, s)), value)
                 /\ result' = "ok"
                 /\ UNCHANGED <<_depth, _state>>
            \/ Segv
  /\ UNCHANGED <<ndebug, shaVars, strVars>>

\* write_string without the test for the null pointer: a null pointer is
\* written as the empty string.
write_string_null_as_empty(value) ==
  /\ CanCall
  /\ hist' = Append(hist, Call("write_string", value))
  /\ \/ \E s \in ReadState(_state, _depth) :
          /\ _stream' =
               write_c(write_chars(write_c(insert_whitespace(
                         insert_separator(_stream, s)), 34), value.bytes), 34)
          /\ result' = "ok"
          /\ UNCHANGED <<_depth, _state>>
     \/ Segv
  /\ UNCHANGED <<ndebug, shaVars, strVars>>

write_string(value) ==
  /\ CanCall
  /\ hist' = Append(hist, Call("write_string", value))
  /\ IF value.null
       THEN write_null_body
       ELSE \/ \E s \in ReadState(_state, _depth) :
                 /\ _stream' =
                      write_c(write_chars(write_c(insert_whitespace(
                                insert_separator(_stream, s)), 34), value.bytes), 34)
                 /\ result' = "ok"
                 /\ UNCHANGED <<_depth, _state>>
            \/ Segv
  /\ UNCHANGED <<ndebug, shaVars, strVars>>

\* flush that also ends the line.
flush_writes_newline ==
  /\ CanCall
  /\ hist' = Append(hist, Call("flush", <<>>))
  /\ _stream' = write_c(_stream, 10)
  /\ result' = "ok"
  /\ UNCHANGED <<_depth, _state, ndebug, shaVars, strVars>>

\* fflush; its failure is ignored.
flush ==
  /\ CanCall
  /\ hist' = Append(hist, Call("flush", <<>>))
  /\ result' = "ok"
  /\ UNCHANGED <<_depth, _state, _stream, ndebug, shaVars, strVars>>

---------------------------------------------------------------------------
(* Specifications *)

Next ==
  \/ begin_object
  \/ finish_object
  \/ begin_array
  \/ finish_array
  \/ write_null
  \/ \E value \in BoolInputs : write_boolean(value)
  \/ \E value \in SignedInputs : write_number_ll(value)
  \/ \E value \in UnsignedInputs : write_number_ull(value)
  \/ \E value \in DoubleInputs : write_number_double(value)
  \/ \E value \in StrInputs : write_string(value)
  \/ flush

\* Any sequence of calls on one writer.
Spec == Init /\ [][Next]_vars

\* One write_string call on a fresh writer, over the strings of EscapeInputs.
NextStr == hist = <<>> /\ \E value \in EscapeInputs : write_string(value)

SpecStr == Init /\ [][NextStr]_vars

\* Any sequence of calls on three digests.
SpecSha == Init /\ [][NextSha]_vars

\* Any sequence of calls on two views of one buffer.
SpecView == InitView /\ [][NextView]_vars

\* A writer on which begin_array has been called n times and nothing else.
Nested_n(n) ==
  /\ _depth = n
  /\ _state = [d \in 0..MaxSupportedDepth |->
                 IF 1 <= d /\ d <= n THEN "array_begin" ELSE "none"]
  /\ _stream = [i \in 1..n |-> 91]
  /\ result = "ok"
  /\ hist = <<>>
  /\ ndebug \in BOOLEAN
  /\ ShaInit
  /\ StrIdle

\* A writer nested to the last slot of the state array, or one short of it.
InitDeep == \E n \in {MaxSupportedDepth - 1, MaxSupportedDepth} : Nested_n(n)

\* Any sequence of calls on a writer that is nested that deep.
SpecDeep == InitDeep /\ [][Next]_vars

---------------------------------------------------------------------------
(* The calls made so far, read by the JSON grammar (independent of the     *)
(* writer's own state): used to state the properties below.                *)

Front(s) == SubSeq(s, 1, Len(s) - 1)

BeginCalls == {"begin_object", "begin_array"}
FinishCalls == {"finish_object", "finish_array"}
ScalarCalls == {"write_null", "write_boolean", "write_number_ll",
                "write_number_ull", "write_number_double", "write_string"}

KindOf(name) == IF name \in {"begin_object", "finish_object"} THEN "object" ELSE "array"

\* A call that emits a value (a non-finite number emits none).
EmitsValue(c) ==
  /\ c.name \in ScalarCalls \cup BeginCalls
  /\ c.name = "write_number_double" => c.arg.cls = "finite"

\* A call that can stand for an object key: a non-null string.
IsKey(c) == c.name = "write_string" /\ ~c.arg.null

\* The top entry of a level stack with one more item.
Bump(stack) == [stack EXCEPT ![Len(stack)].items = @ + 1]

\* The levels open after the calls h, outermost first: the document, then
\* every container begun and not yet finished, each with the number of items
\* (values, and keys in an object) written at that level.
RECURSIVE Levels(_)
Levels(h) ==
  IF h = <<>> THEN <<[kind |-> "document", items |-> 0]>>
  ELSE LET prev == Levels(Front(h))
           c == Last(h)
       IN  CASE c.name \in BeginCalls ->
                  Append(Bump(prev), [kind |-> KindOf(c.name), items |-> 0])
             [] c.name \in FinishCalls ->
                  IF Len(prev) > 1 THEN Front(prev) ELSE prev
             [] OTHER -> IF EmitsValue(c) THEN Bump(prev) ELSE prev

Top(h) == Last(Levels(h))

\* The number of containers the calls h leave open.
NOpen(h) == Len(Levels(h)) - 1

\* The grammar accepts a value at the top level of h.
AcceptsValue(h) ==
  \/ Top(h).kind = "document" /\ Top(h).items = 0
  \/ Top(h).kind = "array"
  \/ Top(h).kind = "object" /\ Top(h).items % 2 = 1

\* The grammar requires a key at the top level of h.
RequiresKey(h) == Top(h).kind = "object" /\ Top(h).items % 2 = 0

\* The grammar allows call c after the calls h.
Allowed(h, c) ==
  CASE c.name = "flush" -> TRUE
    [] c.name = "finish_array" -> Top(h).kind = "array"
    [] c.name = "finish_object" -> RequiresKey(h)
    [] OTHER -> /\ EmitsValue(c)
                /\ AcceptsValue(h) \/ (RequiresKey(h) /\ IsKey(c))

\* Every call of h was allowed by the grammar when it was made.
RECURSIVE Legal(_)
Legal(h) == h = <<>> \/ (Legal(Front(h)) /\ Allowed(Front(h), Last(h)))

\* Every finish_* of h closed an open container of its own kind.
RECURSIVE Nested(_)
Nested(h) ==
  \/ h = <<>>
  \/ /\ Nested(Front(h))
     /\ Last(h).name \in FinishCalls => Top(Front(h)).kind = KindOf(Last(h).name)

\* The bytes of one scalar value, without separator.
Render(c) ==
  CASE c.name = "write_null" -> <<110, 117, 108, 108>>
    [] c.name = "write_boolean" ->
         IF c.arg THEN <<116, 114, 117, 101>> ELSE <<102, 97, 108, 115, 101>>
    [] c.name = "write_number_ll" -> fprintf_lld(<<>>, c.arg)
    [] c.name = "write_number_ull" -> fprintf_llu(<<>>, c.arg)
    [] c.name = "write_number_double" -> fprintf_g(<<>>, c.arg)
    [] c.name = "write_string" ->
         IF c.arg.null THEN <<110, 117, 108, 108>>
         ELSE <<34>> \o write_chars(<<>>, c.arg.bytes) \o <<34>>

\* The call made in this step (when one was).
TheCall == Last(hist')
Called == Len(hist') = Len(hist) + 1

---------------------------------------------------------------------------
(* C1 - poison latch *)

\* C1: once a call has reported an error, every later call reports the same
\* error, writes no bytes and changes neither the depth nor the state stack.
C1_PoisonLatch ==
  [][(result # "ok" /\ Called) =>
       /\ result' = result
       /\ _stream' = _stream
       /\ _depth' = _depth
       /\ _state' = _state]_vars

---------------------------------------------------------------------------
(* C2 - separators inside an object *)

\* The calls h write one flat object: begin_object, then pairs of a key and
\* a scalar value, then finish_object.
IsFlatObject(h) ==
  /\ Len(h) >= 2
  /\ Len(h) % 2 = 0
  /\ h[1].name = "begin_object"
  /\ h[Len(h)].name = "finish_object"
  /\ \A i \in 2..(Len(h) - 1) :
       IF i % 2 = 0 THEN IsKey(h[i])
                    ELSE h[i].name \in ScalarCalls /\ EmitsValue(h[i])

\* key:value of the pairs of h from call i on, with ',' before every pair but
\* the first.
RECURSIVE Pairs(_, _)
Pairs(h, i) ==
  IF i + 1 > Len(h) - 1 THEN <<>>
  ELSE (IF i = 2 THEN <<>> ELSE <<44>>)
         \o Render(h[i]) \o <<58>> \o Render(h[i + 1]) \o Pairs(h, i + 2)

\* C2: a flat object of n >= 0 pairs reaches the sink as '{', the pairs as
\* key ':' value with one ',' before every key but the first, then '}'.
C2_ObjectSeparators ==
  IsFlatObject(hist) => _stream = <<123>> \o Pairs(hist, 2) \o <<125>>

---------------------------------------------------------------------------
(* C3 - separators inside an array *)

\* C3: in an array, no separator precedes the first element, exactly one ','
\* precedes every later element (a scalar or a nested container), and none
\* precedes ']'.
C3_ArraySeparators ==
  [][(Called /\ Legal(hist) /\ Top(hist).kind = "array") =>
       LET sep == IF Top(hist).items = 0 THEN <<>> ELSE <<44>>
           c == TheCall
       IN  /\ (c.name \in ScalarCalls /\ EmitsValue(c)) =>
                _stream' = _stream \o sep \o Render(c)
           /\ c.name = "begin_object" => _stream' = _stream \o sep \o <<123>>
           /\ c.name = "begin_array" => _stream' = _stream \o sep \o <<91>>
           /\ c.name = "finish_array" => _stream' = _stream \o <<93>>]_vars

---------------------------------------------------------------------------
(* C4 - container matching *)

\* C4: a finish_array while the innermost open container is an object, or a
\* finish_object while it is an array, emits no byte, leaves the depth
\* unchanged and fails with grammar_violation.
C4_ContainerMatching ==
  [][(/\ Called
      /\ Legal(hist)
      /\ \/ TheCall.name = "finish_array" /\ Top(hist).kind = "object"
         \/ TheCall.name = "finish_object" /\ Top(hist).kind = "array") =>
       /\ _stream' = _stream
       /\ _depth' = _depth
       /\ result' = "grammar_violation"]_vars

---------------------------------------------------------------------------
(* C5 - one top-level value *)

\* C5: once the top-level value is complete, every further value-emitting
\* call emits no bytes and fails with grammar_violation.
C5_OneTopLevelValue ==
  [][(/\ Called
      /\ Legal(hist)
      /\ Top(hist).kind = "document" /\ Top(hist).items = 1
      /\ EmitsValue(TheCall)) =>
       /\ _stream' = _stream
       /\ result' = "grammar_violation"]_vars

---------------------------------------------------------------------------
(* C6 - key/value alternation *)

\* C6: where an object requires a key, a value call that is not a string
\* emits nothing and fails with grammar_violation.
C6_KeyValueAlternation ==
  [][(/\ Called
      /\ Legal(hist)
      /\ RequiresKey(hist)
      /\ EmitsValue(TheCall) /\ ~IsKey(TheCall)) =>
       /\ _stream' = _stream
       /\ result' = "grammar_violation"]_vars

---------------------------------------------------------------------------
(* C7 - string escaping *)

\* The sixteen uppercase hexadecimal digits.
UpperHex == <<48, 49, 50, 51, 52, 53, 54, 55, 56, 57, 65, 66, 67, 68, 69, 70>>

\* The escape table: the bytes that stand for input byte b.
EscapeOf(b) ==
  CASE b = 34 -> <<92, 34>>
    [] b = 92 -> <<92, 92>>
    [] b = 47 -> <<92, 47>>
    [] b = 8  -> <<92, 98>>
    [] b = 12 -> <<92, 102>>
    [] b = 10 -> <<92, 110>>
    [] b = 13 -> <<92, 114>>
    [] b = 9  -> <<92, 116>>
    [] b < 32 /\ b \notin {8, 9, 10, 12, 13} ->
         <<92, 117, 48, 48, UpperHex[(b \div 16) + 1], UpperHex[(b % 16) + 1]>>
    [] OTHER -> <<b>>

RECURSIVE EscapeAll(_)
EscapeAll(s) == IF s = <<>> THEN <<>> ELSE EscapeOf(Head(s)) \o EscapeAll(Tail(s))

\* The value of a hexadecimal digit, or -1.
HexValue(c) ==
  IF c \in 48..57 THEN c - 48
  ELSE IF c \in 65..70 THEN c - 55
  ELSE IF c \in 97..102 THEN c - 87
  ELSE 0 - 1

\* The byte a two-character escape \c stands for, or -1.
ShortEscape(c) ==
  CASE c = 34 -> 34
    [] c = 92 -> 92
    [] c = 47 -> 47
    [] c = 98 -> 8
    [] c = 102 -> 12
    [] c = 110 -> 10
    [] c = 114 -> 13
    [] c = 116 -> 9
    [] OTHER -> 0 - 1

\* The bytes that the characters t of a JSON string (the text between its
\* quotes) stand for, read as RFC 4627 reads them; <<-1>> when t is not the
\* inside of a string: a raw control byte, a raw '"', or a '\' that starts no
\* escape.
RECURSIVE Unescape(_)
Unescape(t) ==
  IF t = <<>> THEN <<>>
  ELSE LET c == Head(t)
           fail == <<0 - 1>>
           cons(b, rest) == LET r == Unescape(rest)
                            IN  IF r = fail THEN fail ELSE <<b>> \o r
       IN  IF c < 32 \/ c = 34 THEN fail
           ELSE IF c # 92 THEN cons(c, Tail(t))
           ELSE IF Len(t) < 2 THEN fail
           ELSE IF t[2] = 117
             THEN IF Len(t) >= 6 /\ \A i \in 3..6 : HexValue(t[i]) >= 0
                    THEN cons(HexValue(t[3]) * 4096 + HexValue(t[4]) * 256
                                + HexValue(t[5]) * 16 + HexValue(t[6]),
                              SubSeq(t, 7, Len(t)))
                    ELSE fail
             ELSE IF ShortEscape(t[2]) >= 0
                    THEN cons(ShortEscape(t[2]), SubSeq(t, 3, Len(t)))
                    ELSE fail

\* C7: write_string of a non-null string emits '"', the escape of every
\* input byte in order by the table, then '"'; the text between the quotes
\* holds no raw control byte and no unescaped '"' or '\', and reads back as
\* the input.
C7_StringEscaping ==
  (Len(hist) = 1 /\ hist[1].name = "write_string" /\ ~hist[1].arg.null) =>
    LET s == hist[1].arg.bytes
    IN  /\ _stream = <<34>> \o EscapeAll(s) \o <<34>>
        /\ Len(_stream) >= 2
        /\ Unescape(SubSeq(_stream, 2, Len(_stream) - 1)) = s

\* The string of a control byte and a quote was written as "\u0001\"".
C7_Witness ==
  /\ Len(hist) = 1
  /\ hist[1].name = "write_string"
  /\ ~hist[1].arg.null
  /\ hist[1].arg.bytes = <<1, 34>>
  /\ _stream = <<34, 92, 117, 48, 48, 48, 49, 92, 34, 34>>

---------------------------------------------------------------------------
(* C8 - non-finite numbers *)

\* C8: write_number(double) with NaN or an infinity fails (the exception for
\* a number that cannot be serialized) and the sink receives no byte for the
\* call, whatever the writer's state.
C8_NonFiniteRejected ==
  [][(/\ Called
      /\ TheCall.name = "write_number_double"
      /\ TheCall.arg.cls \in {"nan", "inf"}) =>
       /\ result' = "invalid_argument"
       /\ _stream' = _stream
       /\ _depth' = _depth
       /\ _state' = _state]_vars

\* NaN was rejected inside an array that already holds an element.
C8_Witness ==
  /\ Len(hist) = 3
  /\ hist[1].name = "begin_array"
  /\ hist[2].name = "write_null"
  /\ hist[3].name = "write_number_double"
  /\ hist[3].arg.cls = "nan"
  /\ result = "invalid_argument"
  /\ _stream = <<91, 110, 117, 108, 108>>

---------------------------------------------------------------------------
(* C9 - depth underflow *)

\* C9: finish_object or finish_array called with no container open does not
\* decrement the depth (it never wraps) and emits no closing byte.
C9_NoUnderflow ==
  [][(Called /\ TheCall.name \in FinishCalls /\ _depth = 0) =>
       /\ _depth' = 0
       /\ _stream' = _stream]_vars

---------------------------------------------------------------------------
(* C10 - balanced depth *)

\* C10: as long as every finish_* closes an open container of its own kind,
\* the depth equals the number of containers open: begin_* adds one, finish_*
\* takes one away, no other call changes it, and it is zero when every
\* container is closed.
C10_BalancedDepth == Nested(hist) => _depth = NOpen(hist)

\* Two containers were opened and closed in nested order; the depth is zero.
C10_Witness ==
  /\ Len(hist) = 4
  /\ hist[1].name = "begin_array"
  /\ hist[2].name = "begin_object"
  /\ hist[3].name = "finish_object"
  /\ hist[4].name = "finish_array"
  /\ _depth = 0
  /\ _stream = <<91, 123, 125, 93>>

---------------------------------------------------------------------------
(* C11 - depth overflow *)

\* C11: a begin_object or begin_array at the maximum depth does not raise
\* the depth (so no slot past the end of the state array is indexed), emits
\* no opening byte and fails with depth_exceeded.
C11_DepthOverflow ==
  [][(Called /\ TheCall.name \in BeginCalls /\ _depth = MaxSupportedDepth) =>
       /\ _depth' = _depth
       /\ _depth' \in DOMAIN _state
       /\ _stream' = _stream
       /\ result' = "depth_exceeded"]_vars

---------------------------------------------------------------------------
(* C12 - write_string(nullptr) *)

\* C12: write_string with a null pointer does what write_null does from the
\* same state: the same separator, then the literal null without quotes,
\* and the same depth, states and outcome.
C12_NullStringIsNull ==
  [][(Called /\ TheCall.name = "write_string" /\ TheCall.arg.null) =>
       /\ write_null_body
       /\ result' = "ok" =>
            /\ Len(_stream') >= Len(_stream) + 4
            /\ SubSeq(_stream', Len(_stream') - 3, Len(_stream'))
                 = <<110, 117, 108, 108>>
            /\ SubSeq(_stream', 1, Len(_stream)) = _stream
            /\ \A i \in (Len(_stream) + 1)..Len(_stream') : _stream'[i] # 34]_vars

\* write_string(nullptr) was called as the second element of an array.
C12_Witness ==
  /\ Len(hist) = 3
  /\ hist[1].name = "begin_array"
  /\ hist[2].name = "write_boolean"
  /\ hist[3].name = "write_string"
  /\ hist[3].arg.null
  /\ result = "ok"
  /\ _depth = 1

---------------------------------------------------------------------------
(* C13 - SHA-1 construction *)

\* C13: a digest constructed by default has 20 zero bytes, and a digest
\* constructed from a 20-byte buffer holds exactly the 20 bytes of the buffer.
C13_Construction ==
  /\ sha_call.name = "sha1" => sha_data[sha_call.x] = ZeroData
  /\ sha_call.name = "sha1_data" => sha_data[sha_call.x] = sha_call.src

---------------------------------------------------------------------------
(* C14 - SHA-1 ordering *)

\* u is before v in the lexicographic order of their bytes, as unsigned values.
LexLess(u, v) ==
  \E i \in 0..(sha1_size - 1) :
    /\ u[i] < v[i]
    /\ \A j \in 0..(i - 1) : u[j] = v[j]

Sign(n) == IF n < 0 THEN 0 - 1 ELSE IF n > 0 THEN 1 ELSE 0

\* C14: compare is negative, zero or positive as the first digest is before,
\* equal to or after the second in the lexicographic order of their unsigned
\* bytes; the six operators say the same; the order is total, antisymmetric
\* and transitive.
C14_LexicographicOrder ==
  /\ \A x \in Digests, y \in Digests :
       LET u == sha_data[x]
           v == sha_data[y]
           r == compare(u, v)
       IN /\ r < 0 <=> LexLess(u, v)
          /\ r > 0 <=> LexLess(v, u)
          /\ r = 0 <=> u = v
          /\ Sign(compare(v, u)) = 0 - Sign(r)
          /\ op_eq(u, v) <=> u = v
          /\ op_ne(u, v) <=> u # v
          /\ op_lt(u, v) <=> LexLess(u, v)
          /\ op_le(u, v) <=> (LexLess(u, v) \/ u = v)
          /\ op_gt(u, v) <=> LexLess(v, u)
          /\ op_ge(u, v) <=> (LexLess(v, u) \/ u = v)
          /\ op_le(u, v) \/ op_le(v, u)
          /\ \A z \in Digests :
               (op_le(u, v) /\ op_le(v, sha_data[z])) => op_le(u, sha_data[z])
  /\ sha_call.name = "compare" =>
       LET u == sha_data[sha_call.x]
           v == sha_data[sha_call.y]
       IN /\ sha_call.ret < 0 <=> LexLess(u, v)
          /\ sha_call.ret > 0 <=> LexLess(v, u)

\* compare has returned a positive value for two digests with the same first
\* byte whose last bytes are 0xFF and 0x01.
C14_Witness ==
  /\ sha_call.name = "compare"
  /\ sha_call.ret > 0
  /\ sha_data[sha_call.x][0] = sha_data[sha_call.y][0]
  /\ sha_data[sha_call.x][sha1_size - 1] = 255
  /\ sha_data[sha_call.y][sha1_size - 1] = 1

---------------------------------------------------------------------------
(* C15 - str::at *)

\* The step is a call of the member function name on a view.
StrCalled(name) == strVars' # strVars /\ str_call'.name = name

\* C15: at(i) on a view of size n throws out_of_range for every i >= n (every
\* i when the pointer is null or the string is empty) and leaves the buffer
\* and the views as they are; for i < n it returns the byte at index i, which
\* is the byte operator[] gives (byte_at).
C15_AtBoundsChecked ==
  [][StrCalled("at") =>
       LET data == str_data[str_call'.v]
           i == str_call'.arg
           n == size(buf, data)
       IN /\ buf' = buf
          /\ str_data' = str_data
          /\ (data = NullData \/ byte_at(buf, data, 0) = 0) => n = 0
          /\ i >= n => str_call'.how = "out_of_range"
          /\ i < n =>
               /\ str_call'.how = "ok"
               /\ str_call'.ret = buf[data + i + 1]
               /\ str_call'.ret # 0
               /\ str_call'.ret = byte_at(buf, data, i)]_vars

\* at(n) has thrown on a view of size n >= 1.
C15_Witness ==
  /\ str_call.name = "at"
  /\ str_call.how = "out_of_range"
  /\ str_data[str_call.v] # NullData
  /\ str_call.arg = size(buf, str_data[str_call.v])
  /\ str_call.arg >= 1

---------------------------------------------------------------------------
(* C16 - str::find and str::substr *)

\* C16: on a view with a buffer, find(c) is the smallest index whose byte is
\* c, or npos when no byte of the string (its terminator included) is c; and
\* substr(i), for i = find(c) # npos, is a view of the same buffer at offset
\* i, of size size() - i, whose front() (its byte at 0) is c.
C16_FindSubstr ==
  [][/\ (StrCalled("find") /\ str_data[str_call'.v] # NullData) =>
          LET data == str_data[str_call'.v]
              c == str_call'.arg
              i == str_call'.ret
              n == size(buf, data)
          IN /\ str_call'.how = "ok"
             /\ i = npos <=> (\A j \in 0..n : buf[data + j + 1] # c)
             /\ i # npos =>
                  /\ i \in 0..n
                  /\ buf[data + i + 1] = c
                  /\ \A j \in 0..(i - 1) : buf[data + j + 1] # c
     /\ (StrCalled("substr") /\ str_data[str_call'.v] # NullData) =>
          LET data == str_data[str_call'.v]
              sub == str_data'[str_call'.w]
              i == str_call'.arg
          IN \A c \in FindInputs :
               (find(buf, data, c) = i /\ i # npos) =>
                  /\ buf' = buf
                  /\ sub = data + i
                  /\ size(buf', sub) = size(buf, data) - i
                  /\ byte_at(buf', sub, 0) = c]_vars

\* t = s.substr(2) on a view s whose first byte equal to b is at index 2.
C16_Witness ==
  /\ str_call.name = "substr"
  /\ str_call.v = "s"
  /\ str_call.w = "t"
  /\ str_call.arg = 2
  /\ str_data["s"] = 0
  /\ str_data["t"] = 2
  /\ find(buf, str_data["s"], 98) = 2
  /\ size(buf, str_data["t"]) = 1

---------------------------------------------------------------------------
(* C17 - flush *)

\* C17: flush leaves the depth and the state stack unchanged and appends no
\* byte to the sink, from every state.
C17_FlushChangesNothing ==
  [][(Called /\ TheCall.name = "flush") =>
       /\ _depth' = _depth
       /\ _state' = _state
       /\ _stream' = _stream
       /\ result' = "ok"]_vars

\* flush was called between two elements of an open array.
C17_Witness ==
  /\ Len(hist) = 4
  /\ hist[1].name = "begin_array"
  /\ hist[2].name = "write_null"
  /\ hist[3].name = "flush"
  /\ hist[4].name = "write_null"
  /\ _depth = 1
  /\ _stream = <<91, 110, 117, 108, 108, 110, 117, 108, 108>>

---------------------------------------------------------------------------
(* C18 - SHA-1 copy and swap *)

\* C18: after a digest is copy-constructed or assigned from another, the two
\* hold the same 20 bytes and compare equal, and the source is unchanged; a
\* swap exchanges the 20 bytes of the two digests.
C18_CopyAndSwap ==
  [][LET x == sha_call'.x
         y == sha_call'.y
     IN shaVars' # shaVars =>
          /\ sha_call'.name \in {"sha1_copy", "assign"} =>
               /\ sha_data'[x] = sha_data[y]
               /\ sha_data'[y] = sha_data[y]
               /\ compare(sha_data'[x], sha_data'[y]) = 0
          /\ sha_call'.name = "swap" =>
               /\ sha_data'[x] = sha_data[y]
               /\ sha_data'[y] = sha_data[x]]_vars

---------------------------------------------------------------------------
(* C19 - str::pop_back *)

\* C19: pop_back on a view of size n >= 1 writes NUL at index n - 1, which is
\* inside [0, n), and nowhere else: the size becomes n - 1, bytes 0..n-2 stay,
\* and every other view of the buffer sees the same one byte changed.
C19_PopBack ==
  [][(StrCalled("pop_back") /\ size(buf, str_data[str_call'.v]) >= 1) =>
       LET data == str_data[str_call'.v]
           n == size(buf, data)
       IN /\ str_call'.how = "ok"
          /\ str_call'.arg = n - 1
          /\ str_call'.arg \in 0..(n - 1)
          /\ str_data' = str_data
          /\ size(buf', data) = n - 1
          /\ \A j \in 0..(n - 2) : byte_at(buf', data, j) = byte_at(buf, data, j)
          /\ \A p \in 1..Len(buf) :
               buf'[p] = IF p = data + n THEN 0 ELSE buf[p]
          /\ \A w \in Views :
               (str_data[w] # NullData /\ str_data[w] <= data + n - 1) =>
                  size(buf', str_data[w]) <= data + n - 1 - str_data[w]]_vars

\* s.pop_back() on a view s of size 3, seen through t = s.substr(1), whose
\* size went from 2 to 1.
C19_Witness ==
  /\ str_call.name = "pop_back"
  /\ str_call.v = "s"
  /\ str_call.how = "ok"
  /\ str_call.arg = 2
  /\ str_data["s"] = 0
  /\ str_data["t"] = 1
  /\ size(buf, str_data["s"]) = 2
  /\ size(buf, str_data["t"]) = 1

====
